---- MODULE Spec2Model ----
(***************************************************************************)
(* Model of server.py: a per-customer configuration store kept in one JSON *)
(* file (config_store.json), read through get_cfg and written through      *)
(* set_cfg, behind a REST and an HTML-form boundary with an optional       *)
(* bearer-token gate on the write endpoints.                               *)
(*                                                                         *)
(* Python values are tagged records [t |-> kind, v |-> payload]:           *)
(*   float  v = the number in tenths (1.5 is 15)                           *)
(*   int    v = the number                                                 *)
(*   bool   v = TRUE / FALSE                                               *)
(*   str    v = the text                                                   *)
(*   none   JSON null / Python None                                        *)
(*   list   v = the number of elements (a JSON array, contents not used)   *)
(*   dict   v = a function from keys to values                             *)
(* An evaluation that may raise yields [ok, val, err]: the value, or the   *)
(* name of the Python exception.                                           *)
(***************************************************************************)
EXTENDS Integers, Sequences, FiniteSets, TLC

VARIABLES
    file,         \* what is on disk at STORE_FILE
    prev,         \* history: `file` as it was before the last operation
    op,           \* history: the last operation and its arguments
    result,       \* history: what the last operation returned or raised
    ADMIN_TOKEN,  \* os.getenv("ADMIN_TOKEN"), fixed for the life of the process
    pc,           \* concurrent set_cfg calls: each worker's position
    args,         \* concurrent set_cfg calls: each worker's (customer_id, data)
    local,        \* concurrent set_cfg calls: each worker's loaded `store`
    events        \* history of concurrent set_cfg calls: the loads and saves in order

vars == <<file, prev, op, result, ADMIN_TOKEN, pc, args, local, events>>

\* ------------------------------------------------------------- bounds

\* The number of customers besides the default customer.
NumCustomers == 2

CustomerNames == <<"a", "b", "c", "d">>

DEFAULT_CUSTOMER_ID == "DEFAULT"

Customers == {DEFAULT_CUSTOMER_ID} \cup {CustomerNames[i] : i \in 1..NumCustomers}

\* ------------------------------------------------------------- values

F(n) == [t |-> "float", v |-> n]
I(n) == [t |-> "int", v |-> n]
B(b) == [t |-> "bool", v |-> b]
S(s) == [t |-> "str", v |-> s]
None == [t |-> "none", v |-> 0]
L(n) == [t |-> "list", v |-> n]
D(m) == [t |-> "dict", v |-> m]

EmptyMap == [k \in {} |-> None]

IsDict(x) == x.t = "dict"

Ok(x) == [ok |-> TRUE, val |-> x, err |-> ""]
Raise(e) == [ok |-> FALSE, val |-> None, err |-> e]

\* {**a, **b} on two key -> value functions: b's entries win.
Merge(a, b) == [k \in DOMAIN a \cup DOMAIN b |-> IF k \in DOMAIN b THEN b[k] ELSE a[k]]

\* d.get(k, dflt) on a key -> value function.
Get(d, k, dflt) == IF k \in DOMAIN d THEN d[k] ELSE dflt

\* Python truthiness, as used by `or`, `not` and bool().
Truthy(x) ==
    CASE x.t = "float" -> x.v # 0
      [] x.t = "int"   -> x.v # 0
      [] x.t = "bool"  -> x.v
      [] x.t = "str"   -> x.v # ""
      [] x.t = "none"  -> FALSE
      [] x.t = "list"  -> x.v # 0
      [] x.t = "dict"  -> DOMAIN x.v # {}

\* The texts float() parses, with their value in tenths; any other text of the
\* model ("", "abc", "true", "no", ...) is not a number.
FloatLiterals == ("0" :> 0) @@ ("1" :> 10) @@ ("7" :> 70) @@ ("2.0" :> 20) @@ ("2.5" :> 25)

\* The texts int() parses: a text with a decimal point is not one of them.
IntLiterals == ("0" :> 0) @@ ("1" :> 1) @@ ("7" :> 7)

\* int() of a float in tenths: truncation toward zero.
Trunc(n) == IF n >= 0 THEN n \div 10 ELSE -((-n) \div 10)

PyFloat(x) ==
    CASE x.t = "float" -> Ok(x)
      [] x.t = "int"   -> Ok(F(10 * x.v))
      [] x.t = "bool"  -> Ok(F(IF x.v THEN 10 ELSE 0))
      [] x.t = "str"   -> IF x.v \in DOMAIN FloatLiterals
                          THEN Ok(F(FloatLiterals[x.v]))
                          ELSE Raise("ValueError")
      [] OTHER         -> Raise("TypeError")

PyInt(x) ==
    CASE x.t = "float" -> Ok(I(Trunc(x.v)))
      [] x.t = "int"   -> Ok(x)
      [] x.t = "bool"  -> Ok(I(IF x.v THEN 1 ELSE 0))
      [] x.t = "str"   -> IF x.v \in DOMAIN IntLiterals
                          THEN Ok(I(IntLiterals[x.v]))
                          ELSE Raise("ValueError")
      [] OTHER         -> Raise("TypeError")

PyBool(x) == Ok(B(Truthy(x)))

\* ------------------------------------------------------------- Config

\* The dataclass's fields, in declaration order (the order from_dict coerces in).
FieldOrder == <<"ratio", "min_coins", "min_ratio", "min_sec_left", "alert_enabled">>

Fields == {FieldOrder[i] : i \in DOMAIN FieldOrder}

\* asdict(cls()): the field defaults.
Defaults ==
    [ratio |-> F(15), min_coins |-> F(1000), min_ratio |-> F(15),
     min_sec_left |-> I(20), alert_enabled |-> B(TRUE)]

\* The "normalize types" step of from_dict for one field.
Coerce(k, x) ==
    CASE k = "min_sec_left"  -> PyInt(x)
      [] k = "alert_enabled" -> PyBool(x)
      [] OTHER               -> PyFloat(x)

\* Config.from_dict, faulty variant: the ratio and min_ratio normalisations read each
\* other's key.
from_dict_swapped(d) ==
    IF ~IsDict(d) THEN Raise("AttributeError")
    ELSE LET base == [k \in Fields |-> Get(d.v, k, Defaults[k])]
             src(k) == CASE k = "ratio" -> "min_ratio"
                         [] k = "min_ratio" -> "ratio"
                         [] OTHER -> k
             co == [k \in Fields |-> Coerce(k, base[src(k)])]
             bad == {i \in DOMAIN FieldOrder : ~co[FieldOrder[i]].ok}
         IN  IF bad = {} THEN Ok([k \in Fields |-> co[k].val])
             ELSE Raise(co[FieldOrder[CHOOSE i \in bad : \A j \in bad : i <= j]].err)

\* Config.from_dict(d): d.get raises on anything that is not a mapping; each
\* declared key is taken from d or from the defaults, unknown keys are not
\* read; the fields are then coerced in declaration order and the first
\* failure is the exception raised.  The value is the Config's field map.
from_dict(d) ==
    IF ~IsDict(d) THEN Raise("AttributeError")
    ELSE LET base == [k \in Fields |-> Get(d.v, k, Defaults[k])]
             co == [k \in Fields |-> Coerce(k, base[k])]
             bad == {i \in DOMAIN FieldOrder : ~co[FieldOrder[i]].ok}
         IN  IF bad = {} THEN Ok([k \in Fields |-> co[k].val])
             ELSE Raise(co[FieldOrder[CHOOSE i \in bad : \A j \in bad : i <= j]].err)

\* asdict(cfg)
asdict(cfg) == D(cfg)

\* ------------------------------------------------------------- storage

\* The states of STORE_FILE: no file; a path that exists and cannot be read as
\* UTF-8 text; text that is not JSON; JSON text, held as the value it encodes.
NoFile == [kind |-> "absent", val |-> None]
Unreadable == [kind |-> "unreadable", val |-> None]
Garbage == [kind |-> "garbage", val |-> None]

\* json.dumps(store): the text of a JSON document.  Keys are already strings
\* and the values of the model (float, int, bool, str, null, list, dict) each
\* have their own JSON form, so the document determines the value.
json_dumps(x) == [kind |-> "json", val |-> x]

\* json.loads(text)
json_loads(f) == IF f.kind = "json" THEN Ok(f.val) ELSE Raise("JSONDecodeError")

\* STORE_FILE.read_text("utf-8")
read_text(f) == IF f.kind = "unreadable" THEN Raise("OSError") ELSE Ok(f)

\* _load_store(): {} when the file does not exist or reading or parsing
\* raises; otherwise whatever JSON value the text encodes.
_load_store(f) ==
    IF f.kind = "absent" THEN D(EmptyMap)
    ELSE LET txt == read_text(f)
         IN  IF ~txt.ok THEN D(EmptyMap)
             ELSE LET js == json_loads(txt.val)
                  IN  IF js.ok THEN js.val ELSE D(EmptyMap)

\* _save_store(store): the file's new content.
_save_store(store) == json_dumps(store)

\* get_cfg(customer_id) against file f.
get_cfg(f, customer_id) ==
    LET store == _load_store(f)
    IN  IF ~IsDict(store) THEN Raise("AttributeError")
        ELSE LET own == Get(store.v, customer_id, None)
                 dfl == Get(store.v, DEFAULT_CUSTOMER_ID, None)
                 raw == IF Truthy(own) THEN own
                        ELSE IF Truthy(dfl) THEN dfl
                        ELSE D(EmptyMap)
             IN  from_dict(raw)

\* What set_cfg yields: the Config returned (or the exception) and the file
\* it leaves behind.
Outcome(r, f) == [ok |-> r.ok, val |-> r.val, err |-> r.err, file |-> f]

\* set_cfg, faulty variant: `data` is merged under the stored record.
set_cfg_stored_wins(f, customer_id, data) ==
    LET store == _load_store(f)
    IN  IF ~IsDict(store) THEN Outcome(Raise("AttributeError"), f)
        ELSE LET old == Get(store.v, customer_id, D(EmptyMap))
             IN  IF ~IsDict(old) \/ ~IsDict(data) THEN Outcome(Raise("TypeError"), f)
                 ELSE LET cfg == from_dict(D(Merge(data.v, old.v)))
                      IN  IF ~cfg.ok THEN Outcome(cfg, f)
                          ELSE Outcome(cfg, _save_store(
                                   D(Merge(store.v, [c \in {customer_id} |-> asdict(cfg.val)]))))

\* set_cfg, faulty variant: the merged raw mapping is stored, not asdict(cfg).
set_cfg_stores_raw(f, customer_id, data) ==
    LET store == _load_store(f)
    IN  IF ~IsDict(store) THEN Outcome(Raise("AttributeError"), f)
        ELSE LET old == Get(store.v, customer_id, D(EmptyMap))
             IN  IF ~IsDict(old) \/ ~IsDict(data) THEN Outcome(Raise("TypeError"), f)
                 ELSE LET merged == D(Merge(old.v, data.v))
                          cfg == from_dict(merged)
                      IN  IF ~cfg.ok THEN Outcome(cfg, f)
                          ELSE Outcome(cfg, _save_store(
                                   D(Merge(store.v, [c \in {customer_id} |-> merged]))))

\* set_cfg, faulty variant: the fields of `data` that normalise are applied and the
\* others dropped.
set_cfg_partial(f, customer_id, data) ==
    LET store == _load_store(f)
    IN  IF ~IsDict(store) THEN Outcome(Raise("AttributeError"), f)
        ELSE LET old == Get(store.v, customer_id, D(EmptyMap))
             IN  IF ~IsDict(old) \/ ~IsDict(data) THEN Outcome(Raise("TypeError"), f)
                 ELSE LET good == {k \in DOMAIN data.v : k \in Fields => Coerce(k, data.v[k]).ok}
                          cfg == from_dict(D(Merge(old.v, [k \in good |-> data.v[k]])))
                      IN  IF ~cfg.ok THEN Outcome(cfg, f)
                          ELSE Outcome(cfg, _save_store(
                                   D(Merge(store.v, [c \in {customer_id} |-> asdict(cfg.val)]))))

\* set_cfg(customer_id, data) against file f: load, merge data over the
\* customer's own stored record ({} when it has none), build the Config, put
\* asdict(cfg) under customer_id and save the whole table.  An exception
\* anywhere before _save_store leaves the file as it was.
set_cfg(f, customer_id, data) ==
    LET store == _load_store(f)
    IN  IF ~IsDict(store) THEN Outcome(Raise("AttributeError"), f)
        ELSE LET old == Get(store.v, customer_id, D(EmptyMap))
             IN  IF ~IsDict(old) \/ ~IsDict(data) THEN Outcome(Raise("TypeError"), f)
                 ELSE LET cfg == from_dict(D(Merge(old.v, data.v)))
                      IN  IF ~cfg.ok THEN Outcome(cfg, f)
                          ELSE Outcome(cfg, _save_store(
                                   D(Merge(store.v, [c \in {customer_id} |-> asdict(cfg.val)]))))

\* ------------------------------------------------------------- operations

\* Text that is compared or cut character by character (the Authorization
\* header, ADMIN_TOKEN) is a sequence of one-character strings; a header or
\* environment variable that may be missing is [set, text].
Absent == [set |-> FALSE, text |-> <<>>]
Text(s) == [set |-> TRUE, text |-> s]

Request(kind, id, data) == [kind |-> kind, id |-> id, data |-> data, auth |-> Absent]

Idle == Request("none", "", None)

NoResult == [ok |-> TRUE, val |-> None, err |-> "", status |-> 0]

Response(r, status) == [ok |-> r.ok, val |-> r.val, err |-> r.err, status |-> status]

Workers == {1, 2}

ConcIdle ==
    /\ pc = [w \in Workers |-> "idle"]
    /\ args = [w \in Workers |-> Idle]
    /\ local = [w \in Workers |-> None]
    /\ events = <<>>

\* resolve: a direct call of get_cfg.
Resolve(id) ==
    /\ prev' = file
    /\ op' = Request("resolve", id, None)
    /\ result' = Response(get_cfg(file, id), 0)
    /\ UNCHANGED <<file, ADMIN_TOKEN, pc, args, local, events>>

\* update: a direct call of set_cfg.
Update(id, data) ==
    LET out == set_cfg(file, id, data)
    IN  /\ prev' = file
        /\ op' = Request("update", id, data)
        /\ result' = Response(out, 0)
        /\ file' = out.file
        /\ UNCHANGED <<ADMIN_TOKEN, pc, args, local, events>>

\* The partial payloads of the core specification: nothing; one field; an
\* unknown key alone; an int, a fractional float and a non-bool to be
\* normalised (the min_sec_left of 10.9 truncates to 10); a field that does
\* not normalise beside one that does.
RatioOnly == D([k \in {"ratio"} |-> F(20)])
BogusOnly == D([k \in {"bogus"} |-> I(1)])
Thresholds ==
    D([k \in {"min_coins", "min_sec_left", "alert_enabled"} |->
          CASE k = "min_coins" -> I(50)
            [] k = "min_sec_left" -> F(109)
            [] OTHER -> I(0)])
BadRatio == D([k \in {"ratio", "min_coins"} |-> IF k = "ratio" THEN S("abc") ELSE I(50)])

Payloads == {D(EmptyMap), RatioOnly, BogusOnly, Thresholds, BadRatio}

Init ==
    /\ file = NoFile
    /\ prev = NoFile
    /\ op = Idle
    /\ result = NoResult
    /\ ADMIN_TOKEN = Absent
    /\ ConcIdle

Next ==
    \/ \E id \in Customers : Resolve(id)
    \/ \E id \in Customers, data \in Payloads : Update(id, data)

\* The store and resolver core, from an empty store.
Spec == Init /\ [][Next]_vars

\* Contents STORE_FILE may have when the process starts: written by an earlier
\* version, by hand or by another program.
LegacyRecords ==
    { D(EmptyMap),
      I(5),
      D([k \in {"ratio"} |-> S("abc")]),
      D([k \in {"ratio", "bogus"} |-> IF k = "ratio" THEN S("2.5") ELSE I(1)]) }

LegacyDefaults == {D([k \in {"ratio", "min_coins"} |-> IF k = "ratio" THEN F(20) ELSE I(50)])}

LegacyFiles ==
    {NoFile, Unreadable, Garbage}
    \cup {json_dumps(x) : x \in {L(0), L(2), I(5), S("abc"), None, D(EmptyMap)}}
    \cup {json_dumps(D([c \in {CustomerNames[1]} |-> r])) : r \in LegacyRecords}
    \cup {json_dumps(D([c \in {CustomerNames[1], DEFAULT_CUSTOMER_ID} |->
                          IF c = DEFAULT_CUSTOMER_ID THEN d ELSE r])) :
              r \in LegacyRecords, d \in LegacyDefaults}

InitStore ==
    /\ file \in LegacyFiles
    /\ prev = file
    /\ op = Idle
    /\ result = NoResult
    /\ ADMIN_TOKEN = Absent
    /\ ConcIdle

\* The payloads sent to a store that held something at start.
StorePayloads == {BogusOnly, Thresholds, BadRatio}

NextStore ==
    \/ \E id \in Customers : Resolve(id)
    \/ \E id \in Customers, data \in StorePayloads : Update(id, data)

\* The store and resolver core, from whatever the file holds at start.
SpecStore == InitStore /\ [][NextStore]_vars

\* ------------------------------------------------------------- auth

\* s.startswith(p)
StartsWith(s, p) == Len(s) >= Len(p) /\ SubSeq(s, 1, Len(p)) = p

\* s.split(" ", 1)[1]: what follows the first space of s (s holds one).
AfterFirstSpace(s) ==
    LET i == CHOOSE i \in 1..Len(s) : s[i] = " " /\ \A j \in 1..(i - 1) : s[j] # " "
    IN  SubSeq(s, i + 1, Len(s))

RECURSIVE LStrip(_)
LStrip(s) == IF s # <<>> /\ Head(s) = " " THEN LStrip(Tail(s)) ELSE s

RECURSIVE RStrip(_)
RStrip(s) == IF s # <<>> /\ s[Len(s)] = " " THEN RStrip(SubSeq(s, 1, Len(s) - 1)) ELSE s

\* s.strip()
Strip(s) == RStrip(LStrip(s))

BearerPrefix == <<"B", "e", "a", "r", "e", "r", " ">>

\* _require_auth, faulty variant: any Bearer header passes, the token is not compared.
_require_auth_any_bearer(token, header) ==
    IF ~token.set \/ token.text = <<>> THEN 0
    ELSE LET auth == IF header.set THEN header.text ELSE <<>>
         IN  IF ~StartsWith(auth, BearerPrefix) THEN 401 ELSE 0

\* _require_auth(): 0 when it returns, else the status it aborts with.
_require_auth(token, header) ==
    IF ~token.set \/ token.text = <<>> THEN 0
    ELSE LET auth == IF header.set THEN header.text ELSE <<>>
         IN  IF ~StartsWith(auth, BearerPrefix) THEN 401
             ELSE IF Strip(AfterFirstSpace(auth)) # token.text THEN 403
             ELSE 0

\* ------------------------------------------------------------- HTTP boundary

\* The customers the HTTP requests name.
HttpCustomers == {DEFAULT_CUSTOMER_ID, CustomerNames[1]}

\* An optional request parameter: missing, or one of the customers.
NoParam == [set |-> FALSE, v |-> ""]
Params == {NoParam} \cup {[set |-> TRUE, v |-> c] : c \in HttpCustomers}

\* request.args.get / form.get with a default
ParamGet(q, dflt) == IF q.set THEN q.v ELSE dflt

HttpRequest(kind, id, data, header) == [kind |-> kind, id |-> id, data |-> data, auth |-> header]

\* The response of a handler that raised (Flask answers 500) or returned.
Handled(r, okStatus) == Response(r, IF r.ok THEN okStatus ELSE 500)

Aborted(status) == Response(Raise("HTTPException"), status)

\* GET /api/config
api_get_config(q) ==
    LET customer_id == ParamGet(q, DEFAULT_CUSTOMER_ID)
    IN  /\ prev' = file
        /\ op' = HttpRequest("api_get", customer_id, None, Absent)
        /\ result' = Handled(get_cfg(file, customer_id), 200)
        /\ UNCHANGED <<file, ADMIN_TOKEN, pc, args, local, events>>

\* POST /api/config: body is request.get_json(silent=True), None when the body
\* is not JSON.
api_update_config(q, body, header) ==
    LET gate == _require_auth(ADMIN_TOKEN, header)
        customer_id == ParamGet(q, DEFAULT_CUSTOMER_ID)
        payload == IF Truthy(body) THEN body ELSE D(EmptyMap)
        out == set_cfg(file, customer_id, payload)
    IN  /\ prev' = file
        /\ op' = HttpRequest("api_post", customer_id, body, header)
        /\ IF gate # 0
           THEN result' = Aborted(gate) /\ file' = file
           ELSE result' = Handled(out, 200) /\ file' = out.file
        /\ UNCHANGED <<ADMIN_TOKEN, pc, args, local, events>>

\* GET /config
html_get_form(q) ==
    LET customer_id == ParamGet(q, DEFAULT_CUSTOMER_ID)
    IN  /\ prev' = file
        /\ op' = HttpRequest("html_get", customer_id, None, Absent)
        /\ result' = Handled(get_cfg(file, customer_id), 200)
        /\ UNCHANGED <<file, ADMIN_TOKEN, pc, args, local, events>>

FormFields == {"ratio", "min_ratio", "min_coins", "min_sec_left"}

\* The `data` html_post_form builds from the form (a field name -> text
\* function): form.get of each numeric field, None when missing; for
\* alert_enabled whether its text is one of "1", "true", "True", which is a
\* bool whether or not the field was sent; then the entries equal to None or
\* "" are dropped, and a bool is equal to neither.
FormData(form) ==
    LET got == [k \in FormFields \cup {"alert_enabled"} |->
                  IF k = "alert_enabled"
                  THEN B(k \in DOMAIN form /\ form[k] \in {"1", "true", "True"})
                  ELSE IF k \in DOMAIN form THEN S(form[k]) ELSE None]
        kept == {k \in DOMAIN got : got[k] \notin {None, S("")}}
    IN  D([k \in kept |-> got[k]])

\* POST /config
html_post_form(form, header) ==
    LET gate == _require_auth(ADMIN_TOKEN, header)
        customer_id == Get(form, "customer_id", DEFAULT_CUSTOMER_ID)
        out == set_cfg(file, customer_id, FormData(form))
    IN  /\ prev' = file
        /\ op' = HttpRequest("html_post", customer_id, D([k \in DOMAIN form |-> S(form[k])]), header)
        /\ IF gate # 0
           THEN result' = Aborted(gate) /\ file' = file
           ELSE result' = Handled(out, 302) /\ file' = out.file
        /\ UNCHANGED <<ADMIN_TOKEN, pc, args, local, events>>

\* The Authorization headers of the model: none; another scheme; the scheme
\* alone; the scheme in lower case; a token t or x; t after two spaces; t
\* followed by a space.
Headers ==
    { Absent,
      Text(<<"B", "a", "s", "i", "c", " ", "t">>),
      Text(<<"B", "e", "a", "r", "e", "r">>),
      Text(<<"b", "e", "a", "r", "e", "r", " ", "t">>),
      Text(BearerPrefix \o <<"t">>),
      Text(BearerPrefix \o <<"x">>),
      Text(BearerPrefix \o <<" ", "t">>),
      Text(BearerPrefix \o <<"t", " ">>) }

\* The values of ADMIN_TOKEN: unset, empty, t, and t followed by a space.
Tokens == {Absent, Text(<<>>), Text(<<"t">>), Text(<<"t", " ">>)}

EmptyAlert == D([k \in {"alert_enabled"} |-> S("")])

\* JSON bodies: not JSON, {"ratio": 2.0}, {"alert_enabled": ""}.
Bodies == {None, RatioOnly, EmptyAlert}

\* Forms, without their customer_id: the ratio alone; every field as a
\* browser sends the page's form, two of them left empty; alert_enabled
\* alone, as "no" and empty; a min_sec_left that is not an integer.
Forms ==
    { [k \in {"ratio"} |-> "2.0"],
      [k \in FormFields \cup {"alert_enabled"} |->
          CASE k = "ratio" -> "2.0"
            [] k = "min_sec_left" -> "7"
            [] k = "alert_enabled" -> "1"
            [] OTHER -> ""],
      [k \in {"alert_enabled"} |-> "no"],
      [k \in {"alert_enabled"} |-> ""],
      [k \in {"min_sec_left"} |-> "2.5"] }

WithCustomer(form, q) ==
    IF q.set THEN Merge(form, [k \in {"customer_id"} |-> q.v]) ELSE form

\* The customer the requests that vary the header name.
FirstCustomer == [set |-> TRUE, v |-> CustomerNames[1]]

\* The header the requests that vary the payload carry.
UsualHeader == Text(BearerPrefix \o <<"t">>)

InitHttp ==
    /\ file = NoFile
    /\ prev = NoFile
    /\ op = Idle
    /\ result = NoResult
    /\ ADMIN_TOKEN \in Tokens
    /\ ConcIdle

NextHttp ==
    \/ \E q \in Params : api_get_config(q)
    \/ \E q \in Params : html_get_form(q)
    \/ \E h \in Headers : api_update_config(FirstCustomer, RatioOnly, h)
    \/ \E q \in Params, b \in Bodies : api_update_config(q, b, UsualHeader)
    \/ \E h \in Headers : html_post_form(WithCustomer([k \in {"ratio"} |-> "2.0"], FirstCustomer), h)
    \/ \E q \in Params, f \in Forms : html_post_form(WithCustomer(f, q), UsualHeader)

\* The REST and HTML endpoints behind the auth gate, from an empty store.
SpecHttp == InitHttp /\ [][NextHttp]_vars

\* ------------------------------------------------------------- concurrent writers

\* Two set_cfg calls on two workers of the HTTP boundary's pool.  Nothing in
\* set_cfg excludes another call between its _load_store and its
\* _save_store, so each call is two steps.

Event(e, w) == [e |-> e, w |-> w]

\* set_cfg, first statement: store = _load_store().
set_cfg_load(w, customer_id, data) ==
    /\ pc[w] = "idle"
    /\ pc' = [pc EXCEPT ![w] = "loaded"]
    /\ args' = [args EXCEPT ![w] = Request("update", customer_id, data)]
    /\ local' = [local EXCEPT ![w] = _load_store(file)]
    /\ events' = Append(events, Event("load", w))
    /\ UNCHANGED <<file, prev, op, result, ADMIN_TOKEN>>

\* set_cfg_save, faulty variant: the table is read again when saving, as it would be
\* were the whole call under a lock, and the record put into that.
set_cfg_save_reloading(w) ==
    LET store == local[w]
        old == Get(store.v, args[w].id, D(EmptyMap))
        cfg == from_dict(D(Merge(old.v, args[w].data.v)))
    IN  /\ pc[w] = "loaded"
        /\ pc' = [pc EXCEPT ![w] = "done"]
        /\ IF cfg.ok
           THEN /\ file' = _save_store(D(Merge(_load_store(file).v,
                                               [c \in {args[w].id} |-> asdict(cfg.val)])))
                /\ events' = Append(events, Event("save", w))
           ELSE UNCHANGED <<file, events>>
        /\ UNCHANGED <<prev, op, result, ADMIN_TOKEN, args, local>>

\* set_cfg, the rest: the Config is built from the store this call loaded,
\* put into that store, and that store overwrites the file; a from_dict that
\* raises ends the call with nothing written.
set_cfg_save(w) ==
    LET store == local[w]
        old == Get(store.v, args[w].id, D(EmptyMap))
        cfg == from_dict(D(Merge(old.v, args[w].data.v)))
    IN  /\ pc[w] = "loaded"
        /\ pc' = [pc EXCEPT ![w] = "done"]
        /\ IF cfg.ok
           THEN /\ file' = _save_store(D(Merge(store.v,
                                               [c \in {args[w].id} |-> asdict(cfg.val)])))
                /\ events' = Append(events, Event("save", w))
           ELSE UNCHANGED <<file, events>>
        /\ UNCHANGED <<prev, op, result, ADMIN_TOKEN, args, local>>

ConcPayloads == {RatioOnly, Thresholds, BadRatio}

NextConc ==
    \/ \E w \in Workers, id \in Customers, data \in ConcPayloads : set_cfg_load(w, id, data)
    \/ \E w \in Workers : set_cfg_save(w)

\* Two concurrent updates of an empty store.
SpecConc == Init /\ [][NextConc]_vars

\* ------------------------------------------------------------- properties

\* The table an operation sees in file f.
Table(f) == _load_store(f).v

IsUpdate == op.kind = "update"

\* C1 as stated. Round trip: after update(id, {ratio: 2.0}), resolve(id) has
\* ratio 2.0 and every other field as resolve(id) returned it just before the
\* update, for every customer id, one without a record of its own included.
C1_RoundTripAsStated ==
    (IsUpdate /\ op.data = RatioOnly) =>
        LET before == get_cfg(prev, op.id)
            after == get_cfg(file, op.id)
        IN  /\ result.ok /\ before.ok /\ after.ok
            /\ after.val["ratio"] = F(20)
            /\ \A k \in Fields \ {"ratio"} : after.val[k] = before.val[k]

\* C1 amended. Round trip: after update(id, {ratio: 2.0}), resolve(id) has
\* ratio 2.0 and every other field as in the customer's own stored record
\* before the update, which is what resolve(id) returned when the customer
\* had a record of its own, and the field default when it had none (the
\* default customer's record is not carried over).
C1_RoundTrip ==
    (IsUpdate /\ op.data = RatioOnly) =>
        LET before == get_cfg(prev, op.id)
            after == get_cfg(file, op.id)
            had == op.id \in DOMAIN Table(prev)
        IN  /\ result.ok /\ before.ok /\ after.ok
            /\ after.val["ratio"] = F(20)
            /\ result.val = after.val
            /\ \A k \in Fields \ {"ratio"} :
                   /\ had => after.val[k] = before.val[k]
                   /\ ~had => after.val[k] = Defaults[k]

\* C1 witness: the ratio-only update of a customer with no record of its own,
\* while the default customer's record holds a min_coins that is not the
\* field default.
C1_Witness ==
    /\ IsUpdate /\ op.data = RatioOnly /\ result.ok
    /\ op.id \notin DOMAIN Table(prev)
    /\ DEFAULT_CUSTOMER_ID \in DOMAIN Table(prev)
    /\ Table(prev)[DEFAULT_CUSTOMER_ID].v["min_coins"] = F(500)
    /\ Table(file)[op.id].v["ratio"] = F(20)

OnlyUnknownKeys == IsUpdate /\ IsDict(op.data) /\ DOMAIN op.data.v \cap Fields = {}

\* C2 as stated. An update whose payload holds only unknown keys changes
\* nothing: the persisted table is the same and so is resolve(c) for every c.
C2_UnknownKeysAsStated ==
    OnlyUnknownKeys =>
        /\ Table(file) = Table(prev)
        /\ \A c \in Customers : get_cfg(file, c) = get_cfg(prev, c)

\* C2 amended. An update whose payload holds only unknown keys succeeds,
\* stores none of them and changes no existing record: the table is the same
\* when the customer already had a record; when it had none, the one change
\* is a new record for it holding the five field defaults.  resolve(c) is
\* the same for every other customer c, and for the customer itself when it
\* had a record.
C2_UnknownKeys ==
    OnlyUnknownKeys =>
        LET had == op.id \in DOMAIN Table(prev)
        IN  /\ result.ok
            /\ had => Table(file) = Table(prev)
            /\ ~had => Table(file) = Merge(Table(prev), [c \in {op.id} |-> D(Defaults)])
            /\ \A c \in Customers :
                   (had \/ c # op.id) => get_cfg(file, c) = get_cfg(prev, c)

\* C2 witness: an unknown key sent for a customer that has a record, and the
\* table left as it was.
C2_Witness ==
    /\ IsUpdate /\ op.data = BogusOnly /\ result.ok
    /\ op.id \in DOMAIN Table(prev)
    /\ Table(prev)[op.id] # D(Defaults)
    /\ file = prev

FailsCoercion ==
    /\ IsUpdate /\ IsDict(op.data)
    /\ \E k \in DOMAIN op.data.v \cap Fields : ~Coerce(k, op.data.v[k]).ok

\* C4. All-or-nothing: when a declared field of the payload fails coercion,
\* update raises and the persisted table is exactly what it was: no valid
\* field of the payload is applied and no record is created.
C4_AllOrNothing ==
    FailsCoercion =>
        /\ ~result.ok
        /\ result.err \in {"ValueError", "TypeError"}
        /\ file = prev
        /\ Table(file) = Table(prev)

\* C4 witness: a payload with a bad ratio and a good min_coins, rejected for a
\* customer that has no record, in a table that holds another customer's.
C4_Witness ==
    /\ IsUpdate /\ op.data = BadRatio /\ ~result.ok
    /\ op.id \notin DOMAIN Table(file)
    /\ DOMAIN Table(file) # {}

TypeOf == [ratio |-> "float", min_coins |-> "float", min_ratio |-> "float",
           min_sec_left |-> "int", alert_enabled |-> "bool"]

\* A field map with exactly the five declared fields, each of its kind.
Complete(m) == DOMAIN m = Fields /\ \A k \in Fields : m[k].t = TypeOf[k]

LookupOrder(t, c) ==
    IF c \in DOMAIN t THEN t[c]
    ELSE IF DEFAULT_CUSTOMER_ID \in DOMAIN t THEN t[DEFAULT_CUSTOMER_ID]
    ELSE D(EmptyMap)

\* C3 as stated. Lookup order of resolve: the default-filled, coerced merge
\* of table[id] whenever id is a key of the table, whatever that record holds
\* (an empty record included); else of the default customer's record when
\* that key is present; else the all-defaults record.
C3_LookupOrderAsStated ==
    (op.kind = "resolve" /\ IsDict(_load_store(prev))) =>
        /\ result.ok = from_dict(LookupOrder(Table(prev), op.id)).ok
        /\ result.val = from_dict(LookupOrder(Table(prev), op.id)).val
        /\ (op.id \notin DOMAIN Table(prev) /\ DEFAULT_CUSTOMER_ID \notin DOMAIN Table(prev))
               => result.val = Defaults

\* A well-formed table: JSON text of a mapping from customer id to field map.
WellFormed(f) ==
    /\ f.kind = "json"
    /\ IsDict(f.val)
    /\ \A c \in DOMAIN f.val.v : IsDict(f.val.v[c])

\* C6 as stated. Corrupt store is empty store: when the file is absent,
\* unreadable, not parseable, or parseable but not a well-formed table, load
\* returns the empty table, so resolve returns the all-defaults record for
\* every id without failing, and nothing is written.
C6_CorruptIsEmptyAsStated ==
    (op.kind = "resolve" /\ ~WellFormed(prev)) =>
        /\ _load_store(prev) = D(EmptyMap)
        /\ result.ok
        /\ result.val = Defaults
        /\ file = prev

\* C8. update is idempotent: when update(id, partial) has succeeded, applying
\* it again leaves the same persisted table and returns the same record.
C8_Idempotent ==
    (IsUpdate /\ result.ok) =>
        LET again == set_cfg(file, op.id, op.data)
        IN  /\ again.ok
            /\ again.val = result.val
            /\ again.file = file
            /\ Table(again.file) = Table(file)

\* C8 witness: an update that changed the table, on a table that held
\* another customer's record.
C8_Witness ==
    /\ IsUpdate /\ result.ok /\ op.data = Thresholds
    /\ file # prev
    /\ op.id \in DOMAIN Table(prev)
    /\ \E c \in DOMAIN Table(prev) : c # op.id
    /\ Table(file)[op.id].v["min_sec_left"] = I(10)

IsWrite == op.kind \in {"api_post", "html_post"}

IsRead == op.kind \in {"api_get", "html_get"}

\* An admin credential is configured: ADMIN_TOKEN is set and not empty.
Configured == ADMIN_TOKEN.set /\ ADMIN_TOKEN.text # <<>>

HeaderText == IF op.auth.set THEN op.auth.text ELSE <<>>

IsBearer == StartsWith(HeaderText, BearerPrefix)

\* The bearer value of the request: the header after "Bearer ".
BearerValue == SubSeq(HeaderText, Len(BearerPrefix) + 1, Len(HeaderText))

\* The write was refused with `status` and the table left as it was.
Rejected(status) == result.status = status /\ ~result.ok /\ file = prev

\* The write went through the gate: set_cfg ran, and the record it returned
\* is the customer's record in the persisted table.
Applied ==
    /\ result.status \in {200, 302, 500}
    /\ result.ok <=> result.status \in {200, 302}
    /\ result.ok => (op.id \in DOMAIN Table(file) /\ Table(file)[op.id] = D(result.val))
    /\ ~result.ok => file = prev

ReadsOpen == IsRead => (result.status = 200 /\ result.ok /\ file = prev)

Submitted(k) ==
    /\ IsDict(op.data)
    /\ k \in DOMAIN op.data.v
    /\ op.data.v[k] \notin {None, S("")}

\* The value customer c's stored record has for field k in file f, or the
\* field default when c has no record.
StoredOrDefault(f, c, k) ==
    IF c \in DOMAIN Table(f) THEN Table(f)[c].v[k] ELSE Defaults[k]

\* C7 as stated. Overlay semantics: a declared field is overridden only if
\* its key is in the submitted REST payload or HTML form with a non-empty
\* value; a field that is missing or submitted empty keeps the value the
\* customer's stored record had, or the field default without a record.
C7_OverlayAsStated ==
    (IsWrite /\ result.ok) =>
        \A k \in Fields :
            ~Submitted(k) => StoredOrDefault(file, op.id, k) = StoredOrDefault(prev, op.id, k)

\* Both calls have run to their save.
BothSaved == (\A w \in Workers : pc[w] = "done") /\ Len(events) = 4

\* Both calls loaded before either saved.
Interleaved == events[1].e = "load" /\ events[2].e = "load"

FirstSaver == events[3].w

LastSaver == events[4].w

\* The persisted table holds a record for worker w's customer with every
\* declared field of w's payload in it, coerced.
Reflected(w) ==
    /\ args[w].id \in DOMAIN Table(file)
    /\ \A k \in DOMAIN args[w].data.v \cap Fields :
           Table(file)[args[w].id].v[k] = Coerce(k, args[w].data.v[k]).val

====
